---- MODULE Spec2Model ----
(***************************************************************************)
(* RiskIQ: the portfolio aggregator (backend/api/app.py), the per-ticker   *)
(* metrics pipeline (backend/api/risk_models.py) and the narrative         *)
(* generator with its retry loop, fallback narrative and risk-tier         *)
(* classifier (backend/api/risk_summary.py).                               *)
(*                                                                         *)
(* Numbers.  Volatility, VaR and CVaR are modelled in hundredths (0.50 is  *)
(* 50), as exact values.  A portfolio average is the exact quotient        *)
(* sum / count, kept as the pair [num, den]; Python's None is the record   *)
(* [tag |-> "null"].  A comparison "average > 0.50" is num > 50 * den.     *)
(***************************************************************************)
EXTENDS Integers, Sequences, FiniteSets, TLC

VARIABLES
    \* ---- get_portfolio_risk (app.py) ----
    tickers,      \* the request's ticker list (GET endpoints: the one ticker
                  \* of the path)
    idx,          \* position of the for-loop over tickers (1-based, next to do)
    results,      \* the list `results` built by the loop
    response,     \* the response payload once built
    pcP,          \* "loop" | "done" (POST /portfolio_risk), "single" |
                  \* "single_done" | "single_failed" (GET /risk/{ticker}),
                  \* "metrics" | "metrics_done" (GET /risk-metrics/{ticker})
    \* ---- get_risk_level (risk_summary.py) ----
    rl_metrics,   \* the metrics_data argument of the call
    rl_out,       \* what the call gave: a tier, or the exception it raised
    \* ---- generate_ai_summary / _call_perplexity (risk_summary.py) ----
    metrics_data,     \* the metrics_data argument
    style,            \* the style argument
    perplexity_token, \* the perplexity_token argument ("" for None)
    env_key,          \* the PERPLEXITY_API_KEY environment variable ("" unset)
    pcN,              \* "start" | "calling" | "except" | "done" | "propagated"
    prompt,           \* the prompt built by _create_prompt
    attempt,          \* the loop variable of _call_perplexity
    exc,              \* the exception caught by generate_ai_summary
    log,              \* the requests sent and the sleeps taken, in order
    ret,              \* what generate_ai_summary gave its caller
    \* ---- prepare_data (fetch_data.py) ----
    raw,          \* the Close column of the history the data source gave
    hist,         \* the Close column of the frame `hist`
    returns,      \* what compute_returns gave
    pcD,          \* "fetch" | "compute" | "done" | "raised"
    \* ---- run_xgboost, run_lstm (risk_models.py) ----
    store,        \* the artifacts present in backend/model_store
    loads,        \* per artifact, how many times it was read from storage
    series,       \* per request, the return series given to the predictors
    pcM,          \* per request, where it stands in run_xgboost / run_lstm
    model,        \* per request, the object its last load produced
    forecast      \* per request, what run_xgboost and run_lstm gave

varsP == <<tickers, idx, results, response, pcP>>

varsR == <<rl_metrics, rl_out>>

varsN == <<metrics_data, style, perplexity_token, env_key, pcN, prompt,
           attempt, exc, log, ret>>

varsD == <<raw, hist, returns, pcD>>

varsM == <<store, loads, series, pcM, model, forecast>>

vars == <<varsP, varsR, varsN, varsD, varsM>>

-----------------------------------------------------------------------------
(* Bounds of the model *)

MaxTickers == 3

\* get_risk_level is tried on volatilities 0 .. MaxVol/100 and CVaRs
\* -MaxCVaR/100 .. MaxCVaR/100, in steps of 1/(100 d) for d in 1..MaxDen
MaxVol == 52

MaxCVaR == 13

MaxDen == 2

\* the narrative generator is tried on the payloads of batches of up to
\* MaxDetails tickers
MaxDetails == 2

\* price histories of up to MaxRows rows are tried
MaxRows == 4

\* the predictors are tried on return series of up to MaxReturns returns
MaxReturns == 24

\* up to MaxRequests requests run their predictors concurrently
MaxRequests == 2

TickerNames == {"AAA", "BBB"}

\* The metrics a ticker's price history can give, in hundredths: historical
\* volatility, VaR, CVaR and the three forecasts.
MetricChoices ==
    { [vol |-> 15, var |-> -2, cvar |-> -3, garch |-> 14, xgb |-> 15, lstm |-> 16],
      [vol |-> 30, var |-> -4, cvar |-> -6, garch |-> 33, xgb |-> 34, lstm |-> 35],
      [vol |-> 40, var |-> -6, cvar |-> -10, garch |-> 45, xgb |-> 50, lstm |-> 40] }

\* Where the per-ticker pipeline raises, if it does.
FailurePoints == {"none", "prepare_data", "run_garch", "run_xgboost", "run_lstm"}

-----------------------------------------------------------------------------
(* Values *)

Null == [tag |-> "null"]

Num(n, d) == [tag |-> "num", num |-> n, den |-> d]

IsNull(v) == v.tag = "null"

\* a call that ended with exception e
Raised(e) == [raised |-> TRUE, error |-> e]

\* a call that returned v
Returned(v) == [raised |-> FALSE, value |-> v]

\* float('nan'): a missing value of a column, the mean of no value
NaN == [tag |-> "nan"]

\* v > c/100 for a number v = num/den (den > 0); False when v is NaN
GT(v, c) == v.tag = "num" /\ v.num > c * v.den

\* v < c/100; False when v is NaN
LT(v, c) == v.tag = "num" /\ v.num < c * v.den

Abs(n) == IF n < 0 THEN -n ELSE n

\* abs() of a number value; abs(nan) is nan
AbsNum(v) == IF v.tag = "nan" THEN NaN ELSE Num(Abs(v.num), v.den)

RECURSIVE SumSeq(_)
\* sum(s) of a list of integers
SumSeq(s) == IF s = <<>> THEN 0 ELSE Head(s) + SumSeq(Tail(s))

\* sum(r[field] for r in s)
SumOver(s, field) == SumSeq([i \in 1..Len(s) |-> s[i][field]])

-----------------------------------------------------------------------------
(* risk_models.py: compute_cvar *)

\* the return series tried have SampleLen returns
SampleLen == 20

\* Two return series, in hundredths, with the VaR compute_var gives for
\* them (mean - 1.645 std, to the hundredth): one with a single loss beyond
\* the VaR, and one whose only move is a gain, which leaves no return below
\* the VaR.
ReturnSamples ==
    { [rets |-> [i \in 1..SampleLen |-> IF i = SampleLen THEN -2 ELSE 0],
       var |-> -1],
      [rets |-> [i \in 1..SampleLen |-> IF i = SampleLen THEN 2 ELSE 0],
       var |-> -1] }

\* lines 88-90: returns[returns < var].mean(), with var the value of
\* compute_var(returns); the mean of an empty selection is NaN
compute_cvar(rets, var) ==
    LET tail == SelectSeq(rets, LAMBDA r : r < var)
    IN IF tail = <<>> THEN NaN ELSE Num(SumSeq(tail), Len(tail))

-----------------------------------------------------------------------------
(* risk_models.py: get_risk_metrics *)

\* The outcome of get_risk_metrics(ticker) in an environment env =
\* [fail, m]: the stages run in order (prepare_data, the three historical
\* metrics, run_garch, run_xgboost, run_lstm); the first one that raises ends
\* the call with that exception, otherwise the full record is returned.
\* (historical_data and currency, which no computation reads, are left out.)
get_risk_metrics(ticker, env) ==
    IF env.fail # "none"
    THEN [raised |-> TRUE, error |-> env.fail]
    ELSE [raised |-> FALSE,
          data |-> [ticker |-> ticker,
                    historical_volatility |-> env.m.vol,
                    VaR_95 |-> env.m.var,
                    CVaR_95 |-> env.m.cvar,
                    forecasted_volatility_garch |-> env.m.garch,
                    forecasted_volatility_xgboost |-> env.m.xgb,
                    forecasted_volatility_lstm |-> env.m.lstm]]

Envs == { [fail |-> f, m |-> m] : f \in FailurePoints, m \in MetricChoices }

-----------------------------------------------------------------------------
(* app.py: get_portfolio_risk *)

HasError(r) == "error" \in DOMAIN r

RECURSIVE Valid(_)
\* valid = [r for r in results if "error" not in r]
Valid(res) ==
    IF res = <<>> THEN <<>>
    ELSE IF ~HasError(Head(res)) THEN <<Head(res)>> \o Valid(Tail(res))
         ELSE Valid(Tail(res))

\* a slip: the average set to zero when no ticker succeeded
AvgFieldZeroWhenEmpty(res, field) ==
    LET valid == Valid(res)
    IN IF valid # <<>> THEN Num(SumOver(valid, field), Len(valid)) ELSE Num(0, 1)

\* a slip: the failed tickers counted in the denominator
AvgFieldOverAllResults(res, field) ==
    LET valid == Valid(res)
    IN IF valid # <<>> THEN Num(SumOver(valid, field), Len(res)) ELSE Null

\* lines 80-85: sum(r[field] for r in valid) / len(valid), or None
AvgField(res, field) ==
    LET valid == Valid(res)
    IN IF valid # <<>> THEN Num(SumOver(valid, field), Len(valid)) ELSE Null

\* a slip: the tickers of every result, failed ones included
SummaryTickersOfAllResults(res) == [i \in 1..Len(res) |-> res[i].ticker]

\* line 89: [r["ticker"] for r in valid]
SummaryTickers(res) ==
    LET valid == Valid(res) IN [i \in 1..Len(valid) |-> valid[i].ticker]

\* The strings generate_summary can return: the local model's text, the
\* default for an empty text, or the error string of its except branch.
GeneratedSummaries ==
    {"LLM_TEXT", "Unable to generate forecast summary at this time.",
     "Error generating summary"}

\* lines 87-95: the payload built from `results`
BuildResponse(res) ==
    [portfolio_summary |->
        [tickers |-> SummaryTickers(res),
         average_volatility |-> AvgField(res, "historical_volatility"),
         average_VaR_95 |-> AvgField(res, "VaR_95"),
         average_CVaR_95 |-> AvgField(res, "CVaR_95")],
     details |-> res]

\* a slip: a failed ticker skipped instead of recorded
LoopBodyDropsFailed(res, ticker, env) ==
    LET out == get_risk_metrics(ticker, env)
    IN IF out.raised THEN res ELSE Append(res, out.data)

\* lines 73-77: one pass of the loop body for `ticker`
LoopBody(res, ticker, env) ==
    LET out == get_risk_metrics(ticker, env)
    IN IF out.raised
       THEN Append(res, [ticker |-> ticker, error |-> out.error])
       ELSE Append(res, out.data)

NoResponse == [tag |-> "none"]

\* no request in progress
IdleP ==
    /\ tickers = <<>>
    /\ idx = 1
    /\ results = <<>>
    /\ response = NoResponse
    /\ pcP = "idle"

InitP ==
    /\ tickers \in UNION { [1..n -> TickerNames] : n \in 0..MaxTickers }
    /\ idx = 1
    /\ results = <<>>
    /\ response = NoResponse
    /\ pcP = "loop"

\* for ticker in tickers: try ... except ...   (one iteration)
PortfolioIter ==
    /\ pcP = "loop"
    /\ idx <= Len(tickers)
    /\ \E env \in Envs : results' = LoopBody(results, tickers[idx], env)
    /\ idx' = idx + 1
    /\ UNCHANGED <<tickers, response, pcP>>

\* a slip: the empty ticker list answered with a failure
PortfolioFinishRejectsEmpty ==
    /\ pcP = "loop"
    /\ idx > Len(tickers)
    /\ \E s \in GeneratedSummaries :
          response' = IF tickers = <<>>
                      THEN [tag |-> "rejected"]
                      ELSE [tag |-> "payload",
                            body |-> BuildResponse(results),
                            summary |-> s]
    /\ pcP' = "done"
    /\ UNCHANGED <<tickers, idx, results>>

\* after the loop: valid, the averages, the payload, the summary, return
PortfolioFinish ==
    /\ pcP = "loop"
    /\ idx > Len(tickers)
    /\ \E s \in GeneratedSummaries :
          response' = [tag |-> "payload",
                       body |-> BuildResponse(results),
                       summary |-> s]
    /\ pcP' = "done"
    /\ UNCHANGED <<tickers, idx, results>>

-----------------------------------------------------------------------------
(* app.py: get_single_ticker_risk; main.py: get_metrics *)

\* a GET endpoint is called with the ticker of the path
InitEndpoint ==
    /\ \E t \in TickerNames : tickers = <<t>>
    /\ idx = 1
    /\ results = <<>>
    /\ response = NoResponse
    /\ pcP \in {"single", "metrics"}

\* a slip: two averages taken from each other's metric
SingleResponseSwapsAverages(data) ==
    [portfolio_summary |->
        [tickers |-> <<data.ticker>>,
         average_volatility |-> Num(data.historical_volatility, 1),
         average_VaR_95 |-> Num(data.CVaR_95, 1),
         average_CVaR_95 |-> Num(data.VaR_95, 1)],
     details |-> <<data>>]

\* app.py lines 56-64: the payload get_single_ticker_risk builds from `data`
SingleResponse(data) ==
    [portfolio_summary |->
        [tickers |-> <<data.ticker>>,
         average_volatility |-> Num(data.historical_volatility, 1),
         average_VaR_95 |-> Num(data.VaR_95, 1),
         average_CVaR_95 |-> Num(data.CVaR_95, 1)],
     details |-> <<data>>]

\* GET /risk/{ticker}: get_risk_metrics is called outside any try, so its
\* exception leaves the handler
SingleTickerRisk ==
    /\ pcP = "single"
    /\ \E env \in Envs, s \in GeneratedSummaries :
          LET out == get_risk_metrics(tickers[1], env)
          IN IF out.raised
             THEN /\ response' = [tag |-> "raised", error |-> out.error]
                  /\ pcP' = "single_failed"
             ELSE /\ response' = [tag |-> "payload",
                                  body |-> SingleResponse(out.data),
                                  summary |-> s]
                  /\ pcP' = "single_done"
    /\ UNCHANGED <<tickers, idx, results>>

\* main.py lines 25-28: what get_metrics returns for an outcome of
\* get_risk_metrics
MetricsResponse(out) ==
    IF out.raised THEN [error |-> out.error] ELSE out.data

\* GET /risk-metrics/{ticker}
GetMetrics ==
    /\ pcP = "metrics"
    /\ \E env \in Envs :
          response' = [tag |-> "payload",
                       body |-> MetricsResponse(get_risk_metrics(tickers[1], env))]
    /\ pcP' = "metrics_done"
    /\ UNCHANGED <<tickers, idx, results>>

-----------------------------------------------------------------------------
(* fetch_data.py: fetch_stock_data, compute_returns, prepare_data *)

\* a Close of v
Close(v) == [tag |-> "num", v |-> v]

\* the closes of the histories tried
Prices == {Close(100), Close(110)}

\* line 23, hist.dropna(inplace=True): the rows with a missing value go
DropNa(col) == SelectSeq(col, LAMBDA c : c.tag # "nan")

\* line 39, hist["Close"].pct_change(): NaN on the first row, then
\* close[i] / close[i-1] - 1 as the quotient num / den
PctChange(col) ==
    [i \in 1..Len(col) |->
        IF i = 1 THEN NaN
        ELSE [tag |-> "num", num |-> col[i].v - col[i - 1].v, den |-> col[i - 1].v]]

\* lines 39-42: the Return column after dropna, which is what is returned
compute_returns(col) == DropNa(PctChange(col))

\* line 40, hist.dropna(inplace=True) inside compute_returns: the rows of
\* `hist` that keep a Return, as their Close
CloseAfterReturns(col) ==
    [i \in 1..Len(compute_returns(col)) |-> col[i + 1]]

\* no call of prepare_data in progress
IdleD ==
    /\ raw = <<>>
    /\ hist = <<>>
    /\ returns = <<>>
    /\ pcD = "idle"

InitD ==
    /\ raw \in UNION { [1..n -> Prices \cup {NaN}] : n \in 0..MaxRows }
    /\ hist = <<>>
    /\ returns = <<>>
    /\ pcD = "fetch"

\* fetch_stock_data, lines 18-25. On a history without rows the frame may
\* come without a Date column, and line 21 then raises; both outcomes are
\* kept.
FetchStockData ==
    /\ pcD = "fetch"
    /\ \/ /\ hist' = DropNa(raw)
          /\ pcD' = "compute"
       \/ /\ raw = <<>>
          /\ hist' = hist
          /\ pcD' = "raised"
    /\ UNCHANGED <<raw, returns>>

\* prepare_data line 58: hist["Return"] = compute_returns(hist); return hist
ComputeReturns ==
    /\ pcD = "compute"
    /\ returns' = compute_returns(hist)
    /\ hist' = CloseAfterReturns(hist)
    /\ pcD' = "done"
    /\ UNCHANGED raw

-----------------------------------------------------------------------------
(* risk_models.py: build_features, run_xgboost, run_lstm *)

\* lines 143-144: rolling(window=20)
window == 20

\* line 231: seq_len = 10
seq_len == 10

Artifacts == {"xgb_vol_model.joblib", "lstm_vol_model.pt"}

Requests == 1..MaxRequests

\* a return series of n returns, as its rows (the values play no part in
\* whether a feature row exists)
Series(n) == [i \in 1..n |-> i]

\* a feature computed from the returns up to row i
Defined(i) == [tag |-> "num", upto |-> i]

\* a slip: the rolling window counted from the first lagged row
RollingAfterLags(rets, w) ==
    [i \in 1..Len(rets) |-> IF i >= w + 3 THEN Defined(i) ELSE NaN]

\* returns.rolling(window=w).std() / .mean(): NaN until w returns are there
Rolling(rets, w) ==
    [i \in 1..Len(rets) |-> IF i >= w THEN Defined(i) ELSE NaN]

\* returns.shift(k): NaN on the first k rows
Shift(rets, k) ==
    [i \in 1..Len(rets) |-> IF i > k THEN Defined(i - k) ELSE NaN]

\* lines 142-149: the five columns, then dropna; the rows that are left
build_features(rets) ==
    LET RollingVolatility == Rolling(rets, window)
        RollingMean == Rolling(rets, window)
        Lag1 == Shift(rets, 1)
        Lag2 == Shift(rets, 2)
        Lag3 == Shift(rets, 3)
    IN SelectSeq(rets, LAMBDA i :
           /\ RollingVolatility[i] # NaN
           /\ RollingMean[i] # NaN
           /\ Lag1[i] # NaN
           /\ Lag2[i] # NaN
           /\ Lag3[i] # NaN)

\* X.tail(1)
Tail1(X) == IF X = <<>> THEN <<>> ELSE <<X[Len(X)]>>

NoModel == [tag |-> "none"]

NoForecast == [tag |-> "none"]

\* the object a read of artifact a from storage produces: each read gives a
\* new object
Loaded(a, k) == [tag |-> "model", artifact |-> a, load |-> k]

\* no predictor is running
IdleM ==
    /\ store = {}
    /\ loads = [a \in Artifacts |-> 0]
    /\ series = [r \in Requests |-> <<>>]
    /\ pcM = [r \in Requests |-> "idle"]
    /\ model = [r \in Requests |-> NoModel]
    /\ forecast = [r \in Requests |-> [xgb |-> NoForecast, lstm |-> NoForecast]]

\* get_risk_metrics lines 286-287 reached by every request, each with a
\* series long enough for both predictors
InitArtifacts ==
    /\ store \in SUBSET Artifacts
    /\ loads = [a \in Artifacts |-> 0]
    /\ series = [r \in Requests |-> Series(MaxReturns)]
    /\ pcM = [r \in Requests |-> "xgb_exists"]
    /\ model = [r \in Requests |-> NoModel]
    /\ forecast = [r \in Requests |-> [xgb |-> NoForecast, lstm |-> NoForecast]]

\* get_risk_metrics lines 286-287 reached by one request, with a series of
\* any length
InitOneSeries ==
    /\ store \in SUBSET Artifacts
    /\ loads = [a \in Artifacts |-> 0]
    /\ \E n \in 0..MaxReturns :
          series = [r \in Requests |-> IF r = 1 THEN Series(n) ELSE <<>>]
    /\ pcM = [r \in Requests |-> IF r = 1 THEN "xgb_exists" ELSE "idle"]
    /\ model = [r \in Requests |-> NoModel]
    /\ forecast = [r \in Requests |-> [xgb |-> NoForecast, lstm |-> NoForecast]]

\* request r raises e out of run_xgboost or run_lstm
RaiseIn(r, field, e) ==
    /\ forecast' = [forecast EXCEPT ![r][field] = Raised(e)]
    /\ pcM' = [pcM EXCEPT ![r] = "raised"]

\* run_xgboost lines 169-172: the artifact must exist
XgbExists(r) ==
    /\ pcM[r] = "xgb_exists"
    /\ IF "xgb_vol_model.joblib" \in store
       THEN pcM' = [pcM EXCEPT ![r] = "xgb_load"] /\ UNCHANGED forecast
       ELSE RaiseIn(r, "xgb", "FileNotFoundError")
    /\ UNCHANGED <<store, loads, series, model>>

\* run_xgboost line 174: model = joblib.load(model_path)
XgbLoad(r) ==
    /\ pcM[r] = "xgb_load"
    /\ loads' = [loads EXCEPT !["xgb_vol_model.joblib"] = @ + 1]
    /\ model' = [model EXCEPT ![r] =
                    Loaded("xgb_vol_model.joblib", loads["xgb_vol_model.joblib"] + 1)]
    /\ pcM' = [pcM EXCEPT ![r] = "xgb_predict"]
    /\ UNCHANGED <<store, series, forecast>>

\* run_xgboost lines 175-179: the features, their last row, the prediction.
\* Without a row there is nothing to predict from: predict raises, or gives
\* no value and predicted_vol[0] raises.
XgbPredict(r) ==
    /\ pcM[r] = "xgb_predict"
    /\ LET latest_features == Tail1(build_features(series[r]))
       IN IF latest_features = <<>>
          THEN \E e \in {"IndexError", "XGBoostError"} : RaiseIn(r, "xgb", e)
          ELSE /\ forecast' = [forecast EXCEPT ![r].xgb =
                      Returned([by |-> model[r], row |-> latest_features[1]])]
               /\ pcM' = [pcM EXCEPT ![r] = "lstm_exists"]
    /\ UNCHANGED <<store, loads, series, model>>

\* run_lstm lines 222-225: the artifact must exist
LstmExists(r) ==
    /\ pcM[r] = "lstm_exists"
    /\ IF "lstm_vol_model.pt" \in store
       THEN pcM' = [pcM EXCEPT ![r] = "lstm_load"] /\ UNCHANGED forecast
       ELSE RaiseIn(r, "lstm", "FileNotFoundError")
    /\ UNCHANGED <<store, loads, series, model>>

\* run_lstm lines 227-229: torch.load(model_path) into a new model object
LstmLoad(r) ==
    /\ pcM[r] = "lstm_load"
    /\ loads' = [loads EXCEPT !["lstm_vol_model.pt"] = @ + 1]
    /\ model' = [model EXCEPT ![r] =
                    Loaded("lstm_vol_model.pt", loads["lstm_vol_model.pt"] + 1)]
    /\ pcM' = [pcM EXCEPT ![r] = "lstm_predict"]
    /\ UNCHANGED <<store, series, forecast>>

\* run_lstm lines 231-238: the last seq_len returns reshaped to
\* (1, seq_len, 1), which raises when there are fewer, then the prediction
LstmPredict(r) ==
    /\ pcM[r] = "lstm_predict"
    /\ IF Len(series[r]) < seq_len
       THEN RaiseIn(r, "lstm", "ValueError")
       ELSE /\ forecast' = [forecast EXCEPT ![r].lstm =
                   Returned([by |-> model[r], row |-> Len(series[r])])]
            /\ pcM' = [pcM EXCEPT ![r] = "done"]
    /\ UNCHANGED <<store, loads, series, model>>

-----------------------------------------------------------------------------
(* Properties of get_portfolio_risk *)

Details == response.body.details

Summary == response.body.portfolio_summary

FullRecordFields ==
    {"ticker", "historical_volatility", "VaR_95", "CVaR_95",
     "forecasted_volatility_garch", "forecasted_volatility_xgboost",
     "forecasted_volatility_lstm"}

IsFullRecord(r) == DOMAIN r = FullRecordFields

IsErrorRecord(r) == DOMAIN r = {"ticker", "error"}

\* the positions of the input whose detail record is not an error record
Succeeded == { i \in 1..Len(Details) : ~IsErrorRecord(Details[i]) }

RECURSIVE PickInOrder(_, _, _)
\* the elements of s at the positions of `keep` from position i on, in order
PickInOrder(s, keep, i) ==
    IF i > Len(s) THEN <<>>
    ELSE (IF i \in keep THEN <<s[i]>> ELSE <<>>) \o PickInOrder(s, keep, i + 1)

RECURSIVE SumAt(_, _, _)
\* the sum of field over the records of s at the positions of the set `at`
SumAt(s, at, field) ==
    IF at = {} THEN 0
    ELSE LET i == CHOOSE j \in at : TRUE
         IN s[i][field] + SumAt(s, at \ {i}, field)

\* v is the number n / d
IsQuotient(v, n, d) == v.tag = "num" /\ v.num * d = n * v.den

\* C1: a per-ticker exception never aborts the batch: the response is built,
\* `details` has one entry per input ticker, entry i is for input ticker i, and
\* it is a full metrics record or an error record {ticker, error}.
C1_DetailsOnePerTickerInOrder ==
    /\ pcP = "loop" => Len(results) = idx - 1
    /\ pcP = "done" =>
         /\ response.tag = "payload"
         /\ Len(Details) = Len(tickers)
         /\ \A i \in 1..Len(tickers) :
               /\ Details[i].ticker = tickers[i]
               /\ IsFullRecord(Details[i]) \/ IsErrorRecord(Details[i])

\* a finished batch of three tickers where a failure is followed by a success
C1_Witness ==
    /\ pcP = "done"
    /\ Len(tickers) = 3
    /\ IsErrorRecord(Details[1])
    /\ IsFullRecord(Details[2])
    /\ IsErrorRecord(Details[3])

\* C2: portfolio_summary.tickers is exactly the input tickers whose record is
\* not an error record, in input order.
C2_SummaryTickersAreSucceededInOrder ==
    pcP = "done" => Summary.tickers = PickInOrder(tickers, Succeeded, 1)

\* a finished batch with a failed ticker between two successful ones
C2_Witness ==
    /\ pcP = "done"
    /\ Len(tickers) = 3
    /\ Succeeded = {1, 3}
    /\ tickers[1] # tickers[3]

\* C3: when every ticker fails the three averages are null and the payload
\* is still built.
C3_AllFailedGivesNull ==
    (pcP = "done" /\ Succeeded = {}) =>
        /\ response.tag = "payload"
        /\ Summary.average_volatility = Null
        /\ Summary.average_VaR_95 = Null
        /\ Summary.average_CVaR_95 = Null

\* a finished batch of two tickers, both failed
C3_Witness ==
    /\ pcP = "done"
    /\ Len(tickers) = 2
    /\ Succeeded = {}

\* C4: with at least one success each average is the sum of the metric over
\* the successful records divided by their number.
C4_AveragesOverSucceededOnly ==
    (pcP = "done" /\ Succeeded # {}) =>
        LET n == Cardinality(Succeeded)
        IN /\ IsQuotient(Summary.average_volatility,
                         SumAt(Details, Succeeded, "historical_volatility"), n)
           /\ IsQuotient(Summary.average_VaR_95,
                         SumAt(Details, Succeeded, "VaR_95"), n)
           /\ IsQuotient(Summary.average_CVaR_95,
                         SumAt(Details, Succeeded, "CVaR_95"), n)

\* a finished batch with two different successful records and one failure
C4_Witness ==
    /\ pcP = "done"
    /\ Cardinality(Succeeded) = 2
    /\ Len(tickers) = 3
    /\ \E i, j \in Succeeded :
          Details[i].historical_volatility # Details[j].historical_volatility

-----------------------------------------------------------------------------
(* risk_summary.py: get_risk_level *)

\* dict.get(key, default)
Get(rec, key, default) == IF key \in DOMAIN rec THEN rec[key] ELSE default

EmptyDict == <<>>

Zero == Num(0, 1)

\* a slip: a value equal to a cutoff promotes
get_risk_level_NonStrict(m) ==
    LET portfolio == Get(m, "portfolio_summary", EmptyDict)
        avg_vol == Get(portfolio, "average_volatility", Zero)
        raw_cvar == Get(portfolio, "average_CVaR_95", Zero)
    IN IF IsNull(raw_cvar) \/ IsNull(avg_vol) THEN Raised("TypeError")
       ELSE LET avg_cvar == AbsNum(raw_cvar)
            IN Returned(
                 IF ~LT(avg_vol, 50) \/ ~LT(avg_cvar, 12) THEN "HIGH"
                 ELSE IF ~LT(avg_vol, 40) \/ ~LT(avg_cvar, 9) THEN "MODERATE-HIGH"
                 ELSE IF ~LT(avg_vol, 30) \/ ~LT(avg_cvar, 6) THEN "MODERATE"
                 ELSE IF ~LT(avg_vol, 20) \/ ~LT(avg_cvar, 4) THEN "LOW-MODERATE"
                 ELSE "LOW")

\* a slip: the labels of two branches exchanged
get_risk_level_SwappedBranches(m) ==
    LET portfolio == Get(m, "portfolio_summary", EmptyDict)
        avg_vol == Get(portfolio, "average_volatility", Zero)
        raw_cvar == Get(portfolio, "average_CVaR_95", Zero)
    IN IF IsNull(raw_cvar) \/ IsNull(avg_vol) THEN Raised("TypeError")
       ELSE LET avg_cvar == AbsNum(raw_cvar)
            IN Returned(
                 IF GT(avg_vol, 50) \/ GT(avg_cvar, 12) THEN "HIGH"
                 ELSE IF GT(avg_vol, 40) \/ GT(avg_cvar, 9) THEN "MODERATE"
                 ELSE IF GT(avg_vol, 30) \/ GT(avg_cvar, 6) THEN "MODERATE-HIGH"
                 ELSE IF GT(avg_vol, 20) \/ GT(avg_cvar, 4) THEN "LOW-MODERATE"
                 ELSE "LOW")

\* lines 587-600.  abs(None) at line 589 and None > 0.5 at line 591 raise
\* TypeError.
get_risk_level(m) ==
    LET portfolio == Get(m, "portfolio_summary", EmptyDict)
        avg_vol == Get(portfolio, "average_volatility", Zero)
        raw_cvar == Get(portfolio, "average_CVaR_95", Zero)
    IN IF IsNull(raw_cvar) \/ IsNull(avg_vol) THEN Raised("TypeError")
       ELSE LET avg_cvar == AbsNum(raw_cvar)
            IN Returned(
                 IF GT(avg_vol, 50) \/ GT(avg_cvar, 12) THEN "HIGH"
                 ELSE IF GT(avg_vol, 40) \/ GT(avg_cvar, 9) THEN "MODERATE-HIGH"
                 ELSE IF GT(avg_vol, 30) \/ GT(avg_cvar, 6) THEN "MODERATE"
                 ELSE IF GT(avg_vol, 20) \/ GT(avg_cvar, 4) THEN "LOW-MODERATE"
                 ELSE "LOW")

\* a metrics_data whose portfolio_summary holds the two averages
SummaryOf(v, c) ==
    [portfolio_summary |-> [average_volatility |-> v, average_CVaR_95 |-> c]]

\* the inputs of the classifier that are no pair of numbers: the summary of
\* a batch where every ticker failed, and a metrics_data without
\* portfolio_summary
OddRiskInputs == {SummaryOf(Null, Null), EmptyDict}

NotCalled == [tag |-> "not called"]

Pending == [tag |-> "pending"]

IdleR ==
    /\ rl_metrics = NotCalled
    /\ rl_out = NotCalled

\* get_risk_level is called with some metrics_data: two numeric averages,
\* the summary of one ticker with the CVaR compute_cvar gave for its returns
\* (a number or NaN; the volatility grows with the size of the one move, so
\* each volatility is tried), or one of the odd inputs
InitR ==
    /\ \/ \E d \in 1..MaxDen :
             \E n \in 0..(MaxVol * d), c \in (-(MaxCVaR * d))..(MaxCVaR * d) :
                 rl_metrics = SummaryOf(Num(n, d), Num(c, d))
       \/ \E n \in 0..MaxVol, smp \in ReturnSamples :
             rl_metrics = SummaryOf(Num(n, 1), compute_cvar(smp.rets, smp.var))
       \/ rl_metrics \in OddRiskInputs
    /\ rl_out = Pending

\* the call runs to its return or its exception
RiskLevelCall ==
    /\ rl_out = Pending
    /\ rl_out' = get_risk_level(rl_metrics)
    /\ UNCHANGED rl_metrics

-----------------------------------------------------------------------------
(* risk_summary.py: _create_prompt and _fallback_summary *)

\* Python truthiness of a number
Truthy(n) == n # 0

\* `garch and xgb and lstm` for a record d
HasForecasts(d) ==
    /\ Truthy(Get(d, "forecasted_volatility_garch", 0))
    /\ Truthy(Get(d, "forecasted_volatility_xgboost", 0))
    /\ Truthy(Get(d, "forecasted_volatility_lstm", 0))

\* the sum of the three forecasts: three times avg_forecast
Forecast3(d) ==
    d.forecasted_volatility_garch + d.forecasted_volatility_xgboost
        + d.forecasted_volatility_lstm

\* "increasing" if change > 5 else "decreasing" if change < -5 else "stable",
\* for change = (avg_forecast / vol - 1) * 100 and vol > 0
Trend(d) ==
    IF 100 * Forecast3(d) > 315 * d.historical_volatility THEN "increasing"
    ELSE IF 100 * Forecast3(d) < 285 * d.historical_volatility THEN "decreasing"
    ELSE "stable"

RECURSIVE ValidDetails(_)
\* [d for d in details if "error" not in d]
ValidDetails(details) ==
    IF details = <<>> THEN <<>>
    ELSE IF ~HasError(Head(details))
         THEN <<Head(details)>> \o ValidDetails(Tail(details))
         ELSE ValidDetails(Tail(details))

\* some valid record has all three forecasts and a zero volatility
DividesByZero(valid) ==
    \E i \in 1..Len(valid) :
        HasForecasts(valid[i]) /\ valid[i].historical_volatility = 0

\* lines 42-312.  The prompt is the text of the branch taken, which embeds
\* the metrics; it is kept as [kind, style, metrics].  The f-strings of three
\* branches give a conditional expression as a format specifier
\* ({garch*100:.2f if garch else 'N/A'}, lines 121, 143 and 277), which
\* raises ValueError when the string is built.
_create_prompt(m, st) ==
    LET details == Get(m, "details", <<>>)
        portfolio == Get(m, "portfolio_summary", EmptyDict)
    IN IF Len(details) = 1
       THEN LET d == details[1]
            IN IF "historical_volatility" \notin DOMAIN d
               THEN Raised("KeyError")
               ELSE IF HasForecasts(d) /\ d.historical_volatility = 0
               THEN Raised("ZeroDivisionError")
               ELSE IF st = "concise"
               THEN Returned([kind |-> "single", style |-> st, metrics |-> m])
               ELSE Raised("ValueError")
       ELSE LET avg_vol == Get(portfolio, "average_volatility", Zero)
                avg_var == Get(portfolio, "average_VaR_95", Zero)
                avg_cvar == Get(portfolio, "average_CVaR_95", Zero)
                valid == ValidDetails(details)
            IN IF valid # <<>> /\ IsNull(avg_vol)
               THEN Raised("TypeError")
               ELSE IF DividesByZero(valid)
               THEN Raised("ZeroDivisionError")
               ELSE IF valid = <<>>
               THEN Raised("UnboundLocalError")
               ELSE IF st = "detailed"
               THEN Raised("ValueError")
               ELSE IF IsNull(avg_var) \/ IsNull(avg_cvar)
               THEN Raised("TypeError")
               ELSE Returned([kind |-> "portfolio", style |-> st,
                              metrics |-> m])

\* a number >= 0 in hundredths, printed with two more digits ({x:.2%}, or
\* dollars of a notional): rounded to the nearest unit
Fmt(v) == (2 * 100 * v.num + v.den) \div (2 * v.den)

RECURSIVE InsertByVol(_, _)
\* d put into a list sorted by volatility, largest first, after its equals
InsertByVol(d, s) ==
    IF s = <<>> THEN <<d>>
    ELSE IF Head(s).historical_volatility >= d.historical_volatility
         THEN <<Head(s)>> \o InsertByVol(d, Tail(s))
         ELSE <<d>> \o s

RECURSIVE SortedByVol(_, _)
\* sorted(valid_details, key=historical_volatility, reverse=True), appended
\* to the already sorted list acc
SortedByVol(s, acc) ==
    IF s = <<>> THEN acc ELSE SortedByVol(Tail(s), InsertByVol(Head(s), acc))

\* s[:n]
Take(s, n) == SubSeq(s, 1, IF Len(s) < n THEN Len(s) ELSE n)

Min(S) == CHOOSE x \in S : \A y \in S : x <= y

Max(S) == CHOOSE x \in S : \A y \in S : x >= y

\* lines 422-446: the risk label of the single-ticker narrative
SingleRisk(vol) ==
    IF vol > 50 THEN "EXTREME RISK"
    ELSE IF vol > 40 THEN "HIGH RISK"
    ELSE IF vol > 30 THEN "MODERATE-HIGH RISK"
    ELSE IF vol > 25 THEN "MODERATE RISK"
    ELSE IF vol > 15 THEN "LOW-MODERATE RISK"
    ELSE "LOW RISK"

\* lines 514-529: the risk label of the portfolio narrative
PortfolioRisk(avg_vol) ==
    IF GT(avg_vol, 40) THEN "HIGH RISK"
    ELSE IF GT(avg_vol, 30) THEN "MODERATE-HIGH RISK"
    ELSE IF GT(avg_vol, 25) THEN "MODERATE RISK"
    ELSE IF GT(avg_vol, 20) THEN "LOW-MODERATE RISK"
    ELSE "LOW RISK"

\* lines 531-537
DivQuality(vol_range) ==
    IF vol_range < 15 THEN "Well-diversified"
    ELSE IF vol_range < 25 THEN "Moderately diversified"
    ELSE "Concentrated risk profile"

\* line 574
DivAdvice(vol_range) ==
    IF vol_range > 25 THEN "consider adding lower volatility assets"
    ELSE "good risk distribution"

\* lines 408-579.  The narrative is kept as the record of what its text
\* states.
_fallback_summary(m) ==
    LET details == Get(m, "details", <<>>)
        portfolio == Get(m, "portfolio_summary", EmptyDict)
    IN IF Len(details) = 1
       THEN LET d == details[1]
            IN IF "historical_volatility" \notin DOMAIN d
               THEN Raised("KeyError")
               ELSE IF HasForecasts(d) /\ d.historical_volatility = 0
               THEN Raised("ZeroDivisionError")
               ELSE Returned(
                 [kind |-> "single",
                  ticker |-> d.ticker,
                  risk |-> SingleRisk(d.historical_volatility),
                  volatility |-> Fmt(Num(d.historical_volatility, 1)),
                  var |-> Fmt(Num(Abs(d.VaR_95), 1)),
                  cvar |-> Fmt(Num(Abs(d.CVaR_95), 1)),
                  outlook |-> IF HasForecasts(d) THEN Trend(d) ELSE "none"])
       ELSE LET valid == ValidDetails(details)
                n == Len(valid)
                avg_vol == Get(portfolio, "average_volatility", Zero)
                raw_var == Get(portfolio, "average_VaR_95", Zero)
                raw_cvar == Get(portfolio, "average_CVaR_95", Zero)
            IN IF IsNull(raw_var) \/ IsNull(raw_cvar) \/ IsNull(avg_vol)
               THEN Raised("TypeError")
               ELSE
                 LET vols == { valid[i].historical_volatility : i \in 1..n }
                     vol_min == IF n > 0 THEN Min(vols) ELSE 0
                     vol_max == IF n > 0 THEN Max(vols) ELSE 0
                     vol_range == vol_max - vol_min
                     top == Take(SortedByVol(valid, <<>>), 3)
                 IN Returned(
                      [kind |-> "portfolio",
                       n |-> n,
                       holdings |-> [i \in 1..(IF n < 5 THEN n ELSE 5) |->
                                        valid[i].ticker],
                       more |-> IF n > 5 THEN n - 5 ELSE 0,
                       risk |-> PortfolioRisk(avg_vol),
                       volatility |-> Fmt(avg_vol),
                       var |-> Fmt(AbsNum(raw_var)),
                       cvar |-> Fmt(AbsNum(raw_cvar)),
                       div_quality |-> DivQuality(vol_range),
                       vol_min |-> vol_min,
                       vol_max |-> vol_max,
                       spread |-> vol_range,
                       top_risky |-> [i \in 1..Len(top) |->
                                         <<top[i].ticker,
                                           top[i].historical_volatility>>],
                       div_advice |-> DivAdvice(vol_range),
                       daily_monitoring |-> GT(avg_vol, 30),
                       reduce_exposure |-> GT(avg_vol, 35)])

-----------------------------------------------------------------------------
(* risk_summary.py: _call_perplexity and generate_ai_summary *)

max_retries == 3

\* line 354: requests.post(..., timeout=30), in seconds
request_timeout == 30

\* What one requests.post can give.  keyword says whether the text of the
\* exception the outcome raises holds "Invalid" or, in lower case, "key"
\* (the test of line 395); for an exception raised by a library the text is
\* the library's.
Outcome(k, s, b, w) == [kind |-> k, status |-> s, body |-> b, keyword |-> w]

Outcomes ==
    { Outcome("http", 200, "content", FALSE),      \* a chat completion
      Outcome("http", 200, "no_choices", FALSE),   \* JSON without choices
      Outcome("http", 200, "unparseable", FALSE),  \* json() raises
      Outcome("http", 200, "unparseable", TRUE),
      Outcome("http", 401, "none", TRUE),
      Outcome("http", 429, "none", FALSE),
      Outcome("http", 503, "none", FALSE),         \* any other status
      Outcome("timeout", 0, "none", FALSE),        \* requests...Timeout
      Outcome("connection_error", 0, "none", FALSE),
      Outcome("connection_error", 0, "none", TRUE) }

Return(v) == [do |-> "return", sleep |-> 0, value |-> v]

\* a slip: giving up where the loop should go on
ContinueGivesUp(secs) == [do |-> "raise", sleep |-> 0, error |-> "gave up"]

\* time.sleep(secs); continue
Continue(secs) == [do |-> "continue", sleep |-> secs]

Raise(e) == [do |-> "raise", sleep |-> 0, error |-> e]

\* lines 394-403: except Exception as e
GenericExcept(att, keyword, e) ==
    IF keyword THEN Raise(e)
    ELSE IF att < max_retries - 1 THEN Continue(3)
    ELSE Raise(e)

\* a slip: the test for the invalid-key message left out
HandleOutcomeWithoutKeyTest(att, o) ==
    IF o.kind = "http" /\ o.status = 200 /\ o.body = "content"
    THEN Return("AI_TEXT")
    ELSE IF o.kind = "http" /\ o.status = 429
    THEN Continue(5 * (att + 1))
    ELSE IF att < max_retries - 1 THEN Continue(3)
    ELSE Raise("Exception")

\* a slip: the wait after a 429 the same on every attempt
HandleOutcomeFlatRateLimitWait(att, o) ==
    IF o.kind = "http" /\ o.status = 200 /\ o.body = "content"
    THEN Return("AI_TEXT")
    ELSE IF o.kind = "http" /\ o.status = 401
    THEN Raise("Invalid Perplexity API key")
    ELSE IF o.kind = "http" /\ o.status = 429
    THEN Continue(5)
    ELSE IF o.keyword THEN Raise("Exception")
    ELSE IF att < max_retries - 1 THEN Continue(3)
    ELSE Raise("Exception")

\* lines 353-403: what the loop body does with the outcome of the request
\* of attempt att (0-based)
HandleOutcome(att, o) ==
    IF o.kind = "http"
    THEN IF o.status = 200
         THEN IF o.body = "content" THEN Return("AI_TEXT")
              ELSE IF o.body = "no_choices"
              THEN GenericExcept(att, FALSE, "Unexpected API response format")
              ELSE GenericExcept(att, o.keyword, "JSONDecodeError")
         ELSE IF o.status = 401
         THEN GenericExcept(att, TRUE, "Invalid Perplexity API key")
         ELSE IF o.status = 429
         THEN Continue(5 * (att + 1))
         ELSE IF att < max_retries - 1 THEN Continue(3)
         ELSE GenericExcept(att, FALSE, "API failed with status")
    ELSE IF o.kind = "timeout"
    THEN IF att < max_retries - 1 THEN Continue(3)
         ELSE Raise("Request timed out")
    ELSE GenericExcept(att, o.keyword, "ConnectionError")

\* a slip: one attempt too many
RangeHasNextOffByOne(att) == att <= max_retries

\* line 352: for attempt in range(max_retries)
RangeHasNext(att) == att < max_retries

\* a slip: a built-in key used when none is configured
TokenOfWithDefaultKey(arg, env) ==
    IF arg # "" THEN arg ELSE IF env # "" THEN env ELSE "pplx-default"

\* line 22: perplexity_token or os.getenv("PERPLEXITY_API_KEY")
TokenOf(arg, env) == IF arg # "" THEN arg ELSE env

\* lines 25-26: return _fallback_summary(metrics_data)
NoTokenBranch(m) == _fallback_summary(m)

\* a slip: the error reported instead of the fallback narrative
ExceptBranchReportsError(m, e) ==
    Returned([kind |-> "error", text |-> e])

\* lines 37-39: except Exception as e: return _fallback_summary(metrics_data)
ExceptBranch(m, e) == _fallback_summary(m)

Request(att, o) == [ev |-> "request", attempt |-> att, outcome |-> o]

Sleep(secs) == [ev |-> "sleep", secs |-> secs]

Styles == {"concise", "detailed", "technical"}

\* (perplexity_token, PERPLEXITY_API_KEY): neither set, one or the other set
Credentials == { <<"", "">>, <<"pplx-arg", "">>, <<"", "pplx-env">> }

\* the ticker of position i of a batch
NarrativeTicker(i) == IF i % 2 = 1 THEN "AAA" ELSE "BBB"

\* the records get_portfolio_risk can put at position i of `results`: a full
\* record, or an error record
RecordsAt(i) ==
    { LoopBody(<<>>, NarrativeTicker(i), env)[1] :
        env \in { e \in Envs : e.fail \in {"none", "prepare_data"} } }

\* the payloads get_portfolio_risk builds for batches of 1 .. MaxDetails
\* tickers; the payload of get_single_ticker_risk is that of a batch of one
\* successful ticker
NarrativeInputs ==
    { BuildResponse(res) :
        res \in UNION { { s \in [1..n -> UNION { RecordsAt(i) : i \in 1..n }] :
                            \A i \in 1..n : s[i] \in RecordsAt(i) } :
                        n \in 1..MaxDetails } }

NoValue == [tag |-> "none"]

IdleN ==
    /\ metrics_data = NoValue
    /\ style = "detailed"
    /\ perplexity_token = ""
    /\ env_key = ""
    /\ pcN = "idle"
    /\ prompt = NoValue
    /\ attempt = 0
    /\ exc = ""
    /\ log = <<>>
    /\ ret = NoValue

\* generate_ai_summary is called
InitN ==
    /\ metrics_data \in NarrativeInputs
    /\ style \in Styles
    /\ \E c \in Credentials : perplexity_token = c[1] /\ env_key = c[2]
    /\ pcN = "start"
    /\ prompt = NoValue
    /\ attempt = 0
    /\ exc = ""
    /\ log = <<>>
    /\ ret = NoValue

\* the return of generate_ai_summary, or the exception it lets through
Finish(r) ==
    /\ ret' = r
    /\ pcN' = IF r.raised THEN "propagated" ELSE "done"

\* lines 22-33: the token, the no-token return, the prompt, the entry into
\* _call_perplexity
Begin ==
    /\ pcN = "start"
    /\ IF TokenOf(perplexity_token, env_key) = ""
       THEN /\ Finish(NoTokenBranch(metrics_data))
            /\ UNCHANGED <<prompt, exc>>
       ELSE LET p == _create_prompt(metrics_data, style)
            IN IF p.raised
               THEN /\ pcN' = "except"
                    /\ exc' = p.error
                    /\ UNCHANGED <<prompt, ret>>
               ELSE /\ pcN' = "calling"
                    /\ prompt' = p.value
                    /\ UNCHANGED <<exc, ret>>
    /\ UNCHANGED <<metrics_data, style, perplexity_token, env_key, attempt, log>>

\* lines 352-403: one pass of the retry loop: the request, its outcome and
\* what the loop body does with it
Attempt ==
    /\ pcN = "calling"
    /\ RangeHasNext(attempt)
    /\ \E o \in Outcomes :
          LET h == HandleOutcome(attempt, o)
          IN /\ log' = log \o <<Request(attempt, o)>>
                           \o (IF h.sleep > 0 THEN <<Sleep(h.sleep)>> ELSE <<>>)
             /\ IF h.do = "return"
                THEN /\ Finish(Returned([kind |-> "ai", text |-> h.value]))
                     /\ UNCHANGED <<attempt, exc>>
                ELSE IF h.do = "continue"
                THEN /\ attempt' = attempt + 1
                     /\ UNCHANGED <<pcN, exc, ret>>
                ELSE /\ pcN' = "except"
                     /\ exc' = h.error
                     /\ UNCHANGED <<attempt, ret>>
    /\ UNCHANGED <<metrics_data, style, perplexity_token, env_key, prompt>>

\* line 405: the loop ran out without a return or a raise
LoopExhausted ==
    /\ pcN = "calling"
    /\ ~RangeHasNext(attempt)
    /\ pcN' = "except"
    /\ exc' = "Perplexity API failed after retries"
    /\ UNCHANGED <<metrics_data, style, perplexity_token, env_key, prompt,
                   attempt, log, ret>>

\* lines 37-39: the except branch of generate_ai_summary
Fallback ==
    /\ pcN = "except"
    /\ Finish(ExceptBranch(metrics_data, exc))
    /\ UNCHANGED <<metrics_data, style, perplexity_token, env_key, prompt,
                   attempt, exc, log>>

-----------------------------------------------------------------------------
(* The specifications *)

\* get_portfolio_risk is called with a ticker list
InitPortfolio == InitP /\ IdleR /\ IdleN /\ IdleD /\ IdleM

NextPortfolio ==
    \/ PortfolioIter /\ UNCHANGED <<varsR, varsN, varsD, varsM>>
    \/ PortfolioFinish /\ UNCHANGED <<varsR, varsN, varsD, varsM>>

\* one request to POST /portfolio_risk
SpecPortfolio == InitPortfolio /\ [][NextPortfolio]_vars

\* get_risk_level is called with a metrics_data
InitRisk == IdleP /\ InitR /\ IdleN /\ IdleD /\ IdleM

NextRisk == RiskLevelCall /\ UNCHANGED <<varsP, varsN, varsD, varsM>>

\* one call of get_risk_level
SpecRisk == InitRisk /\ [][NextRisk]_vars

\* generate_ai_summary is called with a metrics_data, a style and a
\* credential or none
InitNarrative == IdleP /\ IdleR /\ InitN /\ IdleD /\ IdleM

NextNarrative ==
    \/ Begin /\ UNCHANGED <<varsP, varsR, varsD, varsM>>
    \/ Attempt /\ UNCHANGED <<varsP, varsR, varsD, varsM>>
    \/ LoopExhausted /\ UNCHANGED <<varsP, varsR, varsD, varsM>>
    \/ Fallback /\ UNCHANGED <<varsP, varsR, varsD, varsM>>

\* one call of generate_ai_summary
SpecNarrative == InitNarrative /\ [][NextNarrative]_vars

\* one request to any of the three endpoints that compute risk metrics
InitApi == (InitP \/ InitEndpoint) /\ IdleR /\ IdleN /\ IdleD /\ IdleM

NextApi ==
    \/ PortfolioIter /\ UNCHANGED <<varsR, varsN, varsD, varsM>>
    \/ PortfolioFinish /\ UNCHANGED <<varsR, varsN, varsD, varsM>>
    \/ SingleTickerRisk /\ UNCHANGED <<varsR, varsN, varsD, varsM>>
    \/ GetMetrics /\ UNCHANGED <<varsR, varsN, varsD, varsM>>

SpecApi == InitApi /\ [][NextApi]_vars

\* prepare_data is called on a ticker whose history is `raw`
InitData == IdleP /\ IdleR /\ IdleN /\ InitD /\ IdleM

NextData ==
    \/ FetchStockData /\ UNCHANGED <<varsP, varsR, varsN, varsM>>
    \/ ComputeReturns /\ UNCHANGED <<varsP, varsR, varsN, varsM>>

\* one call of prepare_data
SpecData == InitData /\ [][NextData]_vars

NextForecast ==
    \/ \E r \in Requests : XgbExists(r) /\ UNCHANGED <<varsP, varsR, varsN, varsD>>
    \/ \E r \in Requests : XgbLoad(r) /\ UNCHANGED <<varsP, varsR, varsN, varsD>>
    \/ \E r \in Requests : XgbPredict(r) /\ UNCHANGED <<varsP, varsR, varsN, varsD>>
    \/ \E r \in Requests : LstmExists(r) /\ UNCHANGED <<varsP, varsR, varsN, varsD>>
    \/ \E r \in Requests : LstmLoad(r) /\ UNCHANGED <<varsP, varsR, varsN, varsD>>
    \/ \E r \in Requests : LstmPredict(r) /\ UNCHANGED <<varsP, varsR, varsN, varsD>>

\* requests that run run_xgboost and run_lstm in one process, in any
\* interleaving
InitConcurrent == IdleP /\ IdleR /\ IdleN /\ IdleD /\ InitArtifacts

SpecArtifacts == InitConcurrent /\ [][NextForecast]_vars

\* one request that runs run_xgboost and run_lstm on its return series
InitPredict == IdleP /\ IdleR /\ IdleN /\ IdleD /\ InitOneSeries

SpecPredict == InitPredict /\ [][NextForecast]_vars

-----------------------------------------------------------------------------
(* Properties of get_risk_level *)

Tiers == <<"LOW", "LOW-MODERATE", "MODERATE", "MODERATE-HIGH", "HIGH">>

\* the place of a tier in LOW < LOW-MODERATE < MODERATE < MODERATE-HIGH < HIGH
Rank(t) == CHOOSE i \in 1..Len(Tiers) : Tiers[i] = t

\* the cutoff table, most severe tier first: tier, volatility cutoff and
\* |CVaR| cutoff in hundredths
CutoffTable ==
    << [tier |-> "HIGH", vol |-> 50, cvar |-> 12],
       [tier |-> "MODERATE-HIGH", vol |-> 40, cvar |-> 9],
       [tier |-> "MODERATE", vol |-> 30, cvar |-> 6],
       [tier |-> "LOW-MODERATE", vol |-> 20, cvar |-> 4] >>

\* row k of the table matches: either metric is strictly above its cutoff
RowMatches(k, v, c) ==
    \/ v.num > CutoffTable[k].vol * v.den
    \/ Abs(c.num) > CutoffTable[k].cvar * c.den

\* the tier of the first matching row, LOW when none matches
TableTier(v, c) ==
    IF \E k \in 1..Len(CutoffTable) : RowMatches(k, v, c)
    THEN LET k == CHOOSE j \in 1..Len(CutoffTable) :
                     /\ RowMatches(j, v, c)
                     /\ \A h \in 1..(j - 1) : ~RowMatches(h, v, c)
         IN CutoffTable[k].tier
    ELSE "LOW"

RlVol == rl_metrics.portfolio_summary.average_volatility

RlCVaR == rl_metrics.portfolio_summary.average_CVaR_95

\* the call was given two numeric averages
RlNumeric ==
    /\ "portfolio_summary" \in DOMAIN rl_metrics
    /\ RlVol.tag = "num"
    /\ RlCVaR.tag = "num"

RlReturned == rl_out \notin {NotCalled, Pending}

\* C5: get_risk_level gives the tier of the cutoff table: strict
\* comparisons, either metric promotes, the most severe matching tier wins.
C5_TierFollowsCutoffTable ==
    (RlReturned /\ RlNumeric) =>
        /\ ~rl_out.raised
        /\ rl_out.value = TableTier(RlVol, RlCVaR)

\* a call with the volatility exactly on the HIGH cutoff and a CVaR that
\* alone promotes to MODERATE: MODERATE-HIGH by the volatility
C5_Witness ==
    /\ RlReturned /\ RlNumeric
    /\ RlVol = Num(50, 1)
    /\ RlCVaR = Num(-7, 1)
    /\ rl_out = Returned("MODERATE-HIGH")

\* C6: with the CVaR held fixed, a volatility at least as large never gets
\* a lower tier.
C6_MonotonicInVolatility ==
    (RlReturned /\ RlNumeric) =>
        \A n2 \in 0..(MaxVol * RlVol.den) :
            LET other == SummaryOf(Num(n2, RlVol.den), RlCVaR)
            IN RlVol.num <= n2 =>
                 /\ ~get_risk_level(other).raised
                 /\ Rank(get_risk_level(other).value) >= Rank(rl_out.value)

\* a call that gave MODERATE while a larger volatility with the same CVaR
\* gives HIGH
C6_Witness ==
    /\ RlReturned /\ RlNumeric
    /\ RlVol = Num(35, 1)
    /\ RlCVaR = Num(-2, 1)
    /\ rl_out = Returned("MODERATE")
    /\ get_risk_level(SummaryOf(Num(51, 1), Num(-2, 1))) = Returned("HIGH")

-----------------------------------------------------------------------------
(* Properties of generate_ai_summary and _call_perplexity *)

\* the places of the requests in the log
RequestsAt == { i \in 1..Len(log) : log[i].ev = "request" }

\* the places of the log that answered HTTP `status`
StatusAt(status) ==
    { i \in RequestsAt :
        log[i].outcome.kind = "http" /\ log[i].outcome.status = status }

HasCredential == perplexity_token # "" \/ env_key # ""

CallEnded == pcN \in {"except", "done", "propagated"}

\* C7: one call of generate_ai_summary sends at most 3 requests.
C7_AtMostThreeRequests == Cardinality(RequestsAt) <= 3

\* a call that sent three requests, the last one answered 429, and fell
\* back after the loop ran out
C7_Witness ==
    /\ pcN = "done"
    /\ Cardinality(RequestsAt) = 3
    /\ Cardinality(StatusAt(429)) = 3
    /\ exc = "Perplexity API failed after retries"

\* C8: an HTTP 401 ends the external call at once, on any attempt: no
\* request and no back-off sleep comes after it.
C8_AuthFailureEndsCall ==
    \A i \in StatusAt(401) :
        /\ i = Len(log)
        /\ CallEnded
        /\ exc = "Invalid Perplexity API key"

\* a 401 on the second attempt, after one back-off sleep, with the call over
C8_Witness ==
    /\ pcN = "done"
    /\ Len(log) = 3
    /\ log[2].ev = "sleep"
    /\ StatusAt(401) = {3}
    /\ log[3].attempt = 1

\* C9: with a credential configured generate_ai_summary never lets an
\* exception through to its caller.
C9_NeverPropagates == HasCredential => pcN # "propagated"

\* the requests of the call were answered 503, 503, 503
ThreeTimes503 ==
    /\ Cardinality(RequestsAt) = 3
    /\ StatusAt(503) = RequestsAt

\* C10: after HTTP 503 on three consecutive attempts the call returns the
\* very text it returns for the same metrics when no credential is
\* configured.
C10_ExhaustedEqualsNoCredential ==
    (HasCredential /\ ThreeTimes503 /\ pcN \in {"done", "propagated"}) =>
        /\ pcN = "done"
        /\ ret = NoTokenBranch(metrics_data)
        /\ ret.value.kind \in {"single", "portfolio"}

\* a call with a credential, for a mixed batch, that got 503 three times
\* and has returned
C10_Witness ==
    /\ HasCredential /\ ThreeTimes503
    /\ pcN = "done"
    /\ Len(metrics_data.details) = 2
    /\ HasError(metrics_data.details[1])
    /\ ret.value.kind = "portfolio"

\* C11: with neither perplexity_token nor PERPLEXITY_API_KEY set,
\* generate_ai_summary sends no request and takes no back-off sleep, and
\* reaches its result without entering _call_perplexity.
C11_NoCredentialNoRequest ==
    ~HasCredential =>
        /\ log = <<>>
        /\ pcN \in {"start", "done", "propagated"}

\* a call without credential that has returned the portfolio narrative
C11_Witness ==
    /\ ~HasCredential
    /\ pcN = "done"
    /\ ret.value.kind = "portfolio"
    /\ log = <<>>

\* the call is over: it returned or it let an exception through
Over == pcN \in {"done", "propagated"}

\* C12: for every metrics input the aggregator can produce the fallback
\* path returns a narrative and get_risk_level returns one of the five
\* tiers, without raising.
C12_FallbackAndTierNeverRaise ==
    (~HasCredential /\ Over) =>
        /\ pcN = "done"
        /\ ~ret.raised
        /\ ~get_risk_level(metrics_data).raised
        /\ \E i \in 1..Len(Tiers) : get_risk_level(metrics_data).value = Tiers[i]

\* the wording of the narrative for a tier of the classifier
NarrativeLabel(tier) ==
    CASE tier = "LOW" -> "LOW RISK"
      [] tier = "LOW-MODERATE" -> "LOW-MODERATE RISK"
      [] tier = "MODERATE" -> "MODERATE RISK"
      [] tier = "MODERATE-HIGH" -> "MODERATE-HIGH RISK"
      [] tier = "HIGH" -> "HIGH RISK"

\* C13: the risk label of the fallback narrative is the tier get_risk_level
\* gives for the same metrics, for single-ticker and portfolio inputs.
C13_NarrativeLabelIsClassifierTier ==
    (~HasCredential /\ pcN = "done") =>
        /\ ~get_risk_level(metrics_data).raised
        /\ ret.value.risk = NarrativeLabel(get_risk_level(metrics_data).value)

\* the stages of get_risk_metrics that run a forecasting model
ModelStages == {"run_garch", "run_xgboost", "run_lstm"}

\* the fields of a record that do not come from the stage `stage`
FieldsBeside(stage) ==
    FullRecordFields \ {CASE stage = "run_garch" -> "forecasted_volatility_garch"
                          [] stage = "run_xgboost" -> "forecasted_volatility_xgboost"
                          [] stage = "run_lstm" -> "forecasted_volatility_lstm"}

\* C14: when one forecasting model raises for a ticker, the ticker's record
\* still reports the historical metrics and the other two forecasts.
C14_OneModelFailureKeepsTheRest ==
    \A i \in 1..Len(results) :
        (HasError(results[i]) /\ results[i].error \in ModelStages) =>
            FieldsBeside(results[i].error) \subseteq DOMAIN results[i]

\* C15: on each of the three endpoints a failure of the ticker's pipeline
\* never fails the request: the response is built and the failed ticker is
\* in it as an error record {ticker, error}.
C15_FailureIsAnErrorRecord ==
    /\ pcP # "single_failed"
    /\ pcP = "metrics_done" =>
          (HasError(response.body) => IsErrorRecord(response.body))
    /\ pcP \in {"done", "single_done"} =>
          \A i \in 1..Len(Details) :
              HasError(Details[i]) => IsErrorRecord(Details[i])

\* C16, as claimed: a request with an empty ticker list is rejected as a
\* failure, and a request with a non-empty list yields a response payload.
C16_EmptyListRejected ==
    pcP = "done" =>
        IF tickers = <<>> THEN response.tag # "payload"
        ELSE response.tag = "payload"

\* C16, amended: no ticker list fails the request. Every list, the empty
\* one included, yields a payload once the loop is over; for the empty list
\* the payload has no details, no tickers and null averages.
C16_EveryListYieldsPayload ==
    /\ pcP \in {"loop", "done"}
    /\ pcP = "loop" => ENABLED NextPortfolio
    /\ pcP = "done" =>
          /\ response.tag = "payload"
          /\ tickers = <<>> =>
                /\ Details = <<>>
                /\ Summary.tickers = <<>>
                /\ IsNull(Summary.average_volatility)
                /\ IsNull(Summary.average_VaR_95)
                /\ IsNull(Summary.average_CVaR_95)

\* the request with the empty list has been answered
C16_Witness ==
    /\ pcP = "done"
    /\ tickers = <<>>
    /\ response.tag = "payload"

\* C17: with fewer than 2 valid price points prepare_data does not return:
\* it fails; and the return series it gives is never empty.
C17_ShortHistoryFails ==
    pcD = "done" =>
        /\ Len(DropNa(raw)) >= 2
        /\ returns # <<>>

\* an outcome the loop retries: HTTP 429, HTTP 503 or a timeout
Retryable(o) ==
    \/ o.kind = "timeout"
    \/ o.kind = "http" /\ o.status \in {429, 503}

\* the requests of the call number three and each had a retryable outcome
ThreeRetryable ==
    /\ Cardinality(RequestsAt) = max_retries
    /\ \A i \in RequestsAt : Retryable(log[i].outcome)

\* the request at place i of the log was followed by the request of the
\* next attempt, or that request is the one the loop is about to send
NextAttemptFollows(i) ==
    \/ \E j \in RequestsAt : j > i /\ log[j].attempt = log[i].attempt + 1
    \/ /\ pcN = "calling"
       /\ attempt = log[i].attempt + 1
       /\ RangeHasNext(attempt)
       /\ \A j \in RequestsAt : j <= i

\* C18: a retryable outcome (429, 503, timeout) on the first or the second
\* attempt is followed by the next attempt, with the prompt unchanged; after
\* three retryable outcomes no attempt is left, the call raises, and
\* generate_ai_summary returns the fallback narrative.
C18_RetryThenFallback ==
    /\ [](/\ \A i \in RequestsAt :
                (Retryable(log[i].outcome) /\ log[i].attempt < max_retries - 1)
                    => NextAttemptFollows(i)
          /\ ThreeRetryable =>
                /\ pcN \in {"calling", "except", "done"}
                /\ pcN = "calling" => ~RangeHasNext(attempt)
                /\ pcN \in {"except", "done"} => exc # ""
                /\ pcN = "done" => ret = _fallback_summary(metrics_data))
    /\ [][pcN = "calling" => prompt' = prompt]_vars

\* a call answered 429, then 503, then a timeout, that returned the fallback
\* narrative
C18_Witness ==
    /\ ThreeRetryable
    /\ StatusAt(429) = {1}
    /\ Cardinality(StatusAt(503)) = 1
    /\ log[Len(log)].ev = "request"
    /\ log[Len(log)].outcome.kind = "timeout"
    /\ pcN = "done"
    /\ ret.value.kind \in {"single", "portfolio"}

\* every ticker of the metrics has its full record
CompleteMetrics ==
    /\ metrics_data.details # <<>>
    /\ \A i \in 1..Len(metrics_data.details) : ~HasError(metrics_data.details[i])

\* C19: with a credential and complete metrics, whatever the style, the
\* prompt is built and a request is made before any fallback.
C19_PromptBuiltAndRequestSent ==
    (HasCredential /\ CompleteMetrics /\ pcN # "start") =>
        \/ pcN = "calling"
        \/ RequestsAt # {}

RECURSIVE Blocked(_)
\* the seconds a log accounts for: the sleeps, and the timeout of each
\* request that timed out
Blocked(l) ==
    IF l = <<>> THEN 0
    ELSE (IF Head(l).ev = "sleep" THEN Head(l).secs
          ELSE IF Head(l).outcome.kind = "timeout" THEN request_timeout
          ELSE 0) + Blocked(Tail(l))

\* C20: one call is blocked for at most 3 x 30 seconds in timeouts and
\* back-off sleeps, and takes no back-off sleep after its last attempt.
C20_WaitWithinBudget ==
    /\ Blocked(log) <= max_retries * request_timeout
    /\ \A i \in 2..Len(log) :
          log[i].ev = "sleep" => log[i - 1].attempt < max_retries - 1

\* the places of the log where the call waited after an HTTP `status`
WaitsAfter(status) ==
    { i \in 2..Len(log) : log[i].ev = "sleep" /\ (i - 1) \in StatusAt(status) }

\* C21, as claimed: after 429 and after 503 alike, each wait of a call is
\* strictly longer than the wait before it.
C21_WaitGrowsOnBoth ==
    \A status \in {429, 503} :
        \A i, j \in WaitsAfter(status) : i < j => log[i].secs < log[j].secs

\* C21, amended: the wait after a 429 grows with the attempt number, 5 s
\* times the number of the attempt just made, so each one is longer than the
\* one before; the wait after a 503 is the same 3 s on every attempt.
C21_WaitGrowsOn429Only ==
    /\ \A i \in WaitsAfter(429) : log[i].secs = 5 * (log[i - 1].attempt + 1)
    /\ \A i, j \in WaitsAfter(429) : i < j => log[i].secs < log[j].secs
    /\ \A i, j \in WaitsAfter(503) : log[i].secs = log[j].secs

\* a call answered 429 three times, which waited 5 s, 10 s and 15 s
C21_Witness ==
    /\ Cardinality(WaitsAfter(429)) = max_retries
    /\ log[2].secs < log[4].secs
    /\ log[4].secs < log[6].secs

\* a failure that is not the authentication failure
OtherFailure(o) ==
    /\ ~(o.kind = "http" /\ o.status = 401)
    /\ ~(o.kind = "http" /\ o.status = 200 /\ o.body = "content")

\* C25: a 401 apart, every failure on the first or the second attempt is
\* followed by another attempt, whatever the text of its error message.
C25_OnlyAuthFailureEndsEarly ==
    \A i \in RequestsAt :
        (OtherFailure(log[i].outcome) /\ log[i].attempt < max_retries - 1)
            => NextAttemptFollows(i)

\* v and w are the same number
SameNumber(v, w) ==
    /\ v.tag = "num" /\ w.tag = "num"
    /\ v.num * w.den = w.num * v.den

\* the payload `body` is the one get_portfolio_risk builds from the one
\* record `rec`: tickers = [ticker], each average the record's own metric,
\* details = [record]
IsPortfolioOfOne(body, rec) ==
    LET p == BuildResponse(LoopBody(<<>>, rec.ticker, [fail |-> "none",
                 m |-> [vol |-> rec.historical_volatility,
                        var |-> rec.VaR_95,
                        cvar |-> rec.CVaR_95,
                        garch |-> rec.forecasted_volatility_garch,
                        xgb |-> rec.forecasted_volatility_xgboost,
                        lstm |-> rec.forecasted_volatility_lstm]]))
    IN /\ body.details = p.details
       /\ body.details = <<rec>>
       /\ body.portfolio_summary.tickers = p.portfolio_summary.tickers
       /\ body.portfolio_summary.tickers = <<rec.ticker>>
       /\ \A f \in {"average_volatility", "average_VaR_95", "average_CVaR_95"} :
             SameNumber(body.portfolio_summary[f], p.portfolio_summary[f])
       /\ SameNumber(body.portfolio_summary.average_volatility,
                     Num(rec.historical_volatility, 1))
       /\ SameNumber(body.portfolio_summary.average_VaR_95, Num(rec.VaR_95, 1))
       /\ SameNumber(body.portfolio_summary.average_CVaR_95, Num(rec.CVaR_95, 1))

\* C26: for a ticker whose computation succeeds, GET /risk/{ticker} builds
\* the portfolio_summary and details POST /portfolio_risk builds for the
\* list [ticker].
C26_SingleEqualsPortfolioOfOne ==
    /\ pcP = "single_done" =>
          /\ response.tag = "payload"
          /\ Details[1].ticker = tickers[1]
          /\ IsFullRecord(Details[1])
          /\ IsPortfolioOfOne(response.body, Details[1])
    /\ (pcP = "done" /\ Len(tickers) = 1 /\ Succeeded = {1}) =>
          response.body = SingleResponse(Details[1])

\* GET /risk/{ticker} has answered for a ticker whose computation succeeded
C26_Witness ==
    /\ pcP = "single_done"
    /\ response.tag = "payload"
    /\ Summary.tickers = tickers

\* C27: in the portfolio narrative the diversification label is
\* 'Concentrated risk profile' exactly when the advice is 'consider adding
\* lower volatility assets', whatever the spread of the volatilities.
C27_DivLabelAndAdviceAgree ==
    (pcN = "done" /\ ret.value.kind = "portfolio") =>
        /\ ret.value.div_advice \in
              {"consider adding lower volatility assets", "good risk distribution"}
        /\ (ret.value.div_quality = "Concentrated risk profile")
              <=> (ret.value.div_advice = "consider adding lower volatility assets")

\* C24: an undefined CVaR is not taken for zero by get_risk_level: for an
\* average CVaR that is NaN the call does not return, unremarked, the tier
\* it returns for the same volatility with a CVaR of 0.
C24_UndefinedCVaRNotTakenAsZero ==
    (/\ RlReturned
     /\ "portfolio_summary" \in DOMAIN rl_metrics
     /\ RlVol.tag = "num"
     /\ RlCVaR.tag = "nan") =>
        \/ rl_out.raised
        \/ rl_out.value # get_risk_level(SummaryOf(RlVol, Zero)).value

\* the objects the requests hold or predicted with, per artifact
ObjectsOf(a) ==
    { model[r] : r \in { q \in Requests : model[q] # NoModel /\ model[q].artifact = a } }
    \cup { forecast[r].xgb.value.by :
             r \in { q \in Requests : forecast[q].xgb # NoForecast
                                      /\ ~forecast[q].xgb.raised
                                      /\ a = "xgb_vol_model.joblib" } }

\* C22: each pretrained artifact is read from storage at most once in the
\* life of the process, and every run_xgboost / run_lstm call uses the one
\* object that read produced.
C22_EachArtifactLoadedOnce ==
    \A a \in Artifacts :
        /\ loads[a] <= 1
        /\ Cardinality(ObjectsOf(a)) <= 1

\* run_xgboost of request 1 is over
XgbOver == forecast[1].xgb # NoForecast

====
